---- MODULE Spec2Model ----
(***************************************************************************)
(* A model of python/pyspark/sql/connect/conversion.py: the converters     *)
(* between local rows and Arrow tables used by Spark Connect.              *)
(*                                                                         *)
(* Python values are tagged records.  A text (str) is a sequence of        *)
(* one-character strings, so that str(), lower() and the printing of       *)
(* integers are computed and not assumed.  A dict is the sequence of its   *)
(* (key, value) items in insertion order, with pairwise different keys.    *)
(* A mutable container (list, dict) carries its owner: "caller" for an     *)
(* object the caller passed in, "call" for one allocated by the running    *)
(* conversion.  A failed call is the value PyError(kind).                  *)
(***************************************************************************)
EXTENDS Integers, Sequences, FiniteSets, TLC

\* Bounds of the model.
MaxArrayDepth == 2
MaxLen == 2
MaxRows == 2

(***************************************************************************)
(* pyspark.sql.types as imported by the module.                            *)
(***************************************************************************)
NullType == [t |-> "Null"]
IntegerType == [t |-> "Integer"]
BooleanType == [t |-> "Boolean"]
StringType == [t |-> "String"]
BinaryType == [t |-> "Binary"]
TimestampType == [t |-> "Timestamp"]
TimestampNTZType == [t |-> "TimestampNTZ"]
DecimalType == [t |-> "Decimal"]
ArrayType(elementType) == [t |-> "Array", el |-> elementType]
MapType(keyType, valueType) == [t |-> "Map", k |-> keyType, v |-> valueType]
StructField(name, dataType) == [name |-> name, dt |-> dataType]
StructType(fields) == [t |-> "Struct", fields |-> fields]

\* StructType.fieldNames()
fieldNames(dataType) == [i \in 1..Len(dataType.fields) |-> dataType.fields[i].name]

(***************************************************************************)
(* Python values.                                                          *)
(***************************************************************************)
None == [tag |-> "none"]
PyBool(b) == [tag |-> "bool", b |-> b]
PyInt(i) == [tag |-> "int", i |-> i]
PyStr(s) == [tag |-> "str", s |-> s]
PyBytes(s) == [tag |-> "bytes", s |-> s]
PyByteArray(s) == [tag |-> "bytearray", s |-> s]
PyDecimal(nan, i) == [tag |-> "decimal", nan |-> nan, i |-> i]
\* A datetime: the wall clock reading (in hours), and the UTC offset of its
\* tzinfo when it has one (aware).
PyDatetime(wall, aware, off) == [tag |-> "datetime", wall |-> wall, aware |-> aware, off |-> off]
PyList(own, items) == [tag |-> "list", own |-> own, items |-> items]
PyTuple(items) == [tag |-> "tuple", items |-> items]
PyDict(own, items) == [tag |-> "dict", own |-> own, items |-> items]
\* A pyspark Row: a tuple, with __fields__ when it is named.
PyRow(named, fields, items) == [tag |-> "row", named |-> named, fields |-> fields, items |-> items]
PyError(kind) == [tag |-> "error", kind |-> kind]

AssertionError == PyError("AssertionError")
KeyError == PyError("KeyError")
IndexError == PyError("IndexError")
TypeError == PyError("TypeError")

IsNone(value) == value.tag = "none"
IsError(value) == value.tag = "error"

\* The first exception raised while the elements of a sequence are computed
\* left to right; None when there is none.
FirstError(results) ==
    IF \E i \in 1..Len(results) : IsError(results[i])
    THEN results[CHOOSE i \in 1..Len(results) :
                    /\ IsError(results[i])
                    /\ \A j \in 1..(i - 1) : ~IsError(results[j])]
    ELSE None

HasError(results) == \E i \in 1..Len(results) : IsError(results[i])

\* d[k] = v on a dict's item list: an existing key keeps its place.
DictSet(items, k, v) ==
    IF \E i \in 1..Len(items) : items[i][1] = k
    THEN [i \in 1..Len(items) |-> IF items[i][1] = k THEN <<k, v>> ELSE items[i]]
    ELSE Append(items, <<k, v>>)

\* The item list after assigning the pairs in order to an empty dict.
RECURSIVE DictFromPairs(_)
DictFromPairs(pairs) ==
    IF pairs = <<>> THEN <<>>
    ELSE LET n == Len(pairs)
         IN DictSet(DictFromPairs(SubSeq(pairs, 1, n - 1)), pairs[n][1], pairs[n][2])

\* Row.asDict(recursive=False): dict(zip(self.__fields__, self)).
asDict(row) ==
    DictFromPairs([i \in 1..Len(row.fields) |-> <<PyStr(row.fields[i]), row.items[i]>>])

\* str(int): the decimal digits, with a leading minus sign.
Digits == <<"0", "1", "2", "3", "4", "5", "6", "7", "8", "9">>
RECURSIVE IntText(_)
IntText(n) ==
    IF n < 0 THEN <<"-">> \o IntText(-n)
    ELSE IF n < 10 THEN <<Digits[n + 1]>>
    ELSE IntText(n \div 10) \o <<Digits[(n % 10) + 1]>>

\* str.lower() on the characters that str(bool) produces.
LowerChar(c) == IF c = "T" THEN "t" ELSE IF c = "F" THEN "f" ELSE c
lower(s) == [i \in 1..Len(s) |-> LowerChar(s[i])]

\* str(value) for the atomic values of the model.
str(value) ==
    CASE value.tag = "bool" ->
            IF value.b THEN <<"T", "r", "u", "e">> ELSE <<"F", "a", "l", "s", "e">>
      [] value.tag = "int" -> IntText(value.i)
      [] value.tag = "str" -> value.s
      [] value.tag = "bytes" -> <<"b", "'">> \o value.s \o <<"'">>
      [] value.tag = "bytearray" ->
            <<"b", "y", "t", "e", "a", "r", "r", "a", "y", "(", "b", "'">>
                \o value.s \o <<"'", ")">>
      [] value.tag = "decimal" ->
            IF value.nan THEN <<"N", "a", "N">> ELSE IntText(value.i)
      [] value.tag = "datetime" ->
            IntText(value.wall) \o <<":", "0", "0">>
                \o (IF value.aware THEN <<"+">> \o IntText(value.off) ELSE <<>>)

VARIABLES
    localOffset,  \* the UTC offset of the system's local time zone
    dataType,     \* the schema type a field converter is created for
    value,        \* the value handed to the field converters
    l2aOut,       \* LocalDataToArrowConversion._create_converter(dataType)(value)
    a2rOut,       \* ArrowTableToRowsConversion._create_converter(dataType)(value)
    backOut,      \* the column-to-row converter applied to l2aOut
    schema,       \* the schema of a convert call
    data,         \* the rows handed to LocalDataToArrowConversion.convert
    given,        \* the rows as they were when the call started
    pylist,       \* convert's list of converted rows
    table,        \* the Arrow table built or received
    rows,         \* ArrowTableToRowsConversion.convert's list of rows
    raised,       \* the exception that ended the call, None while there is none
    call,         \* the entry point this behaviour calls
    pc            \* where the running call stands

fieldVars == <<dataType, value, l2aOut, a2rOut, backOut>>
tableVars == <<schema, data, given, pylist, table, rows, raised>>
vars == <<localOffset, call, pc, fieldVars, tableVars>>

(***************************************************************************)
(* LocalDataToArrowConversion                                              *)
(***************************************************************************)
RECURSIVE LocalDataToArrowConversion_need_converter(_)
LocalDataToArrowConversion_need_converter(dt) ==
    CASE dt.t = "Null" -> TRUE
      [] dt.t = "Struct" -> TRUE
      [] dt.t = "Array" -> LocalDataToArrowConversion_need_converter(dt.el)
      [] dt.t = "Map" -> TRUE
      [] dt.t = "Binary" -> TRUE
      [] dt.t \in {"Timestamp", "TimestampNTZ"} -> TRUE
      [] dt.t = "Decimal" -> TRUE
      [] dt.t = "String" -> TRUE
      [] OTHER -> FALSE

\* The type whose converter a dict comprehension keyed by field name keeps
\* for a name: the last field of that name.
FieldType(dt, name) ==
    LET last == CHOOSE i \in 1..Len(dt.fields) :
                    /\ dt.fields[i].name = name
                    /\ \A j \in (i + 1)..Len(dt.fields) : dt.fields[j].name # name
    IN dt.fields[last].dt

HasField(dt, name) == \E i \in 1..Len(dt.fields) : dt.fields[i].name = name

RECURSIVE LocalDataToArrowConversion_create_converter(_, _)

\* A mutant of LocalDataToArrowConversion_keyed: the converted values are
\* stored back into the dict that was given (_dict = value).
LocalDataToArrowConversion_keyed_in_place(dt, items, assertStr) ==
    LET out == [i \in 1..Len(items) |->
                   LET k == items[i][1]
                   IN IF k.tag # "str"
                      THEN (IF assertStr THEN AssertionError ELSE KeyError)
                      ELSE IF ~HasField(dt, k.s) THEN KeyError
                      ELSE LocalDataToArrowConversion_create_converter(
                               FieldType(dt, k.s), items[i][2])]
    IN IF HasError(out) THEN FirstError(out)
       ELSE PyDict("caller", DictFromPairs([i \in 1..Len(items) |-> <<items[i][1], out[i]>>]))

\* for k, v in items: _dict[k] = field_convs[k](v); with the assertion that
\* k is a str when assertStr (convert_struct), without it in convert.
LocalDataToArrowConversion_keyed(dt, items, assertStr) ==
    LET out == [i \in 1..Len(items) |->
                   LET k == items[i][1]
                   IN IF k.tag # "str"
                      THEN (IF assertStr THEN AssertionError ELSE KeyError)
                      ELSE IF ~HasField(dt, k.s) THEN KeyError
                      ELSE LocalDataToArrowConversion_create_converter(
                               FieldType(dt, k.s), items[i][2])]
    IN IF HasError(out) THEN FirstError(out)
       ELSE PyDict("call", DictFromPairs([i \in 1..Len(items) |-> <<items[i][1], out[i]>>]))

\* A mutant of LocalDataToArrowConversion_positional: i is never advanced.
LocalDataToArrowConversion_positional_stuck(dt, items) ==
    LET names == fieldNames(dt)
        out == [i \in 1..Len(items) |->
                   IF names = <<>> THEN IndexError
                   ELSE LocalDataToArrowConversion_create_converter(
                            FieldType(dt, names[1]), items[i])]
    IN IF HasError(out) THEN FirstError(out)
       ELSE PyDict("call", DictFromPairs([i \in 1..Len(items) |-> <<PyStr(names[1]), out[i]>>]))

\* i = 0; for v in value: _dict[field_names[i]] = field_convs[field_names[i]](v); i += 1
LocalDataToArrowConversion_positional(dt, items) ==
    LET names == fieldNames(dt)
        out == [i \in 1..Len(items) |->
                   IF i > Len(names) THEN IndexError
                   ELSE LocalDataToArrowConversion_create_converter(
                            FieldType(dt, names[i]), items[i])]
    IN IF HasError(out) THEN FirstError(out)
       ELSE PyDict("call", DictFromPairs([i \in 1..Len(items) |-> <<PyStr(names[i]), out[i]>>]))

LocalDataToArrowConversion_convert_struct(dt, v) ==
    IF IsNone(v) THEN None
    ELSE IF v.tag \notin {"tuple", "row", "dict"} THEN AssertionError
    ELSE IF v.tag = "dict" THEN LocalDataToArrowConversion_keyed(dt, v.items, TRUE)
    ELSE IF v.tag = "row" /\ v.named
         THEN LocalDataToArrowConversion_keyed(dt, asDict(v), TRUE)
    ELSE LocalDataToArrowConversion_positional(dt, v.items)

LocalDataToArrowConversion_convert_array(dt, v) ==
    IF IsNone(v) THEN None
    ELSE IF v.tag \notin {"list", "array"} THEN AssertionError
    ELSE LET out == [i \in 1..Len(v.items) |->
                        LocalDataToArrowConversion_create_converter(dt.el, v.items[i])]
         IN IF HasError(out) THEN FirstError(out) ELSE PyList("call", out)

\* A mutant of LocalDataToArrowConversion_convert_map: without the assertion
\* that the value is a dict, another value is passed on.
LocalDataToArrowConversion_convert_map_unchecked(dt, v) ==
    IF IsNone(v) THEN None
    ELSE IF v.tag # "dict" THEN v
    ELSE LET keys == [i \in 1..Len(v.items) |->
                         LocalDataToArrowConversion_create_converter(dt.k, v.items[i][1])]
             vals == [i \in 1..Len(v.items) |->
                         LocalDataToArrowConversion_create_converter(dt.v, v.items[i][2])]
             out == [i \in 1..Len(v.items) |->
                        IF IsError(keys[i]) THEN keys[i]
                        ELSE IF IsError(vals[i]) THEN vals[i]
                        ELSE PyTuple(<<keys[i], vals[i]>>)]
         IN IF HasError(out) THEN FirstError(out) ELSE PyList("call", out)

LocalDataToArrowConversion_convert_map(dt, v) ==
    IF IsNone(v) THEN None
    ELSE IF v.tag # "dict" THEN AssertionError
    ELSE LET keys == [i \in 1..Len(v.items) |->
                         LocalDataToArrowConversion_create_converter(dt.k, v.items[i][1])]
             vals == [i \in 1..Len(v.items) |->
                         LocalDataToArrowConversion_create_converter(dt.v, v.items[i][2])]
             out == [i \in 1..Len(v.items) |->
                        IF IsError(keys[i]) THEN keys[i]
                        ELSE IF IsError(vals[i]) THEN vals[i]
                        ELSE PyTuple(<<keys[i], vals[i]>>)]
         IN IF HasError(out) THEN FirstError(out) ELSE PyList("call", out)

LocalDataToArrowConversion_convert_binary(v) ==
    IF IsNone(v) THEN None
    ELSE IF v.tag \notin {"bytes", "bytearray"} THEN AssertionError
    ELSE PyBytes(v.s)

\* value.astimezone(datetime.timezone.utc): a naive datetime is read as
\* local time.
LocalDataToArrowConversion_convert_timestample(v) ==
    IF IsNone(v) THEN None
    ELSE IF v.tag # "datetime" THEN AssertionError
    ELSE PyDatetime(v.wall - (IF v.aware THEN v.off ELSE localOffset), TRUE, 0)

LocalDataToArrowConversion_convert_decimal(v) ==
    IF IsNone(v) THEN None
    ELSE IF v.tag # "decimal" THEN AssertionError
    ELSE IF v.nan THEN None ELSE v

\* A mutant of LocalDataToArrowConversion_convert_string: a bool is not
\* lowered.
LocalDataToArrowConversion_convert_string_no_lower(v) ==
    IF IsNone(v) THEN None
    ELSE IF v.tag \notin {"bool", "int", "str", "bytes", "bytearray", "decimal", "datetime"}
         THEN AssertionError
    ELSE PyStr(str(v))

LocalDataToArrowConversion_convert_string(v) ==
    IF IsNone(v) THEN None
    ELSE IF v.tag \notin {"bool", "int", "str", "bytes", "bytearray", "decimal", "datetime"}
         THEN AssertionError
    ELSE IF v.tag = "bool" THEN PyStr(lower(str(v)))
    ELSE PyStr(str(v))

\* The converter _create_converter(dataType) returns, applied to v.
LocalDataToArrowConversion_create_converter(dt, v) ==
    IF ~LocalDataToArrowConversion_need_converter(dt) THEN v
    ELSE CASE dt.t = "Null" -> None
           [] dt.t = "Struct" -> LocalDataToArrowConversion_convert_struct(dt, v)
           [] dt.t = "Array" -> LocalDataToArrowConversion_convert_array(dt, v)
           [] dt.t = "Map" -> LocalDataToArrowConversion_convert_map(dt, v)
           [] dt.t = "Binary" -> LocalDataToArrowConversion_convert_binary(v)
           [] dt.t \in {"Timestamp", "TimestampNTZ"} ->
                LocalDataToArrowConversion_convert_timestample(v)
           [] dt.t = "Decimal" -> LocalDataToArrowConversion_convert_decimal(v)
           [] dt.t = "String" -> LocalDataToArrowConversion_convert_string(v)
           [] OTHER -> v

(***************************************************************************)
(* ArrowTableToRowsConversion                                              *)
(***************************************************************************)
RECURSIVE ArrowTableToRowsConversion_need_converter(_)
\* A mutant of ArrowTableToRowsConversion_need_converter: the two branches
\* that only the other direction has are kept.
ArrowTableToRowsConversion_need_converter_as_local(dt) ==
    CASE dt.t = "Null" -> TRUE
      [] dt.t = "Struct" -> TRUE
      [] dt.t = "Array" -> ArrowTableToRowsConversion_need_converter(dt.el)
      [] dt.t = "Map" -> TRUE
      [] dt.t = "Binary" -> TRUE
      [] dt.t \in {"Timestamp", "TimestampNTZ"} -> TRUE
      [] dt.t = "Decimal" -> TRUE
      [] dt.t = "String" -> TRUE
      [] OTHER -> FALSE

ArrowTableToRowsConversion_need_converter(dt) ==
    CASE dt.t = "Null" -> TRUE
      [] dt.t = "Struct" -> TRUE
      [] dt.t = "Array" -> ArrowTableToRowsConversion_need_converter(dt.el)
      [] dt.t = "Map" -> TRUE
      [] dt.t = "Binary" -> TRUE
      [] dt.t \in {"Timestamp", "TimestampNTZ"} -> TRUE
      [] OTHER -> FALSE

RECURSIVE ArrowTableToRowsConversion_create_converter(_, _)

\* Row(**kwargs): a named Row with the keywords as fields, in their order;
\* a keyword that is no str is a TypeError, and no keyword at all gives the
\* empty unnamed Row.
RowFromKwargs(items) ==
    IF \E i \in 1..Len(items) : items[i][1].tag # "str" THEN TypeError
    ELSE IF items = <<>> THEN PyRow(FALSE, <<>>, <<>>)
    ELSE PyRow(TRUE, [i \in 1..Len(items) |-> items[i][1].s],
                     [i \in 1..Len(items) |-> items[i][2]])

ArrowTableToRowsConversion_convert_struct(dt, v) ==
    IF IsNone(v) THEN PyRow(FALSE, <<>>, <<>>)
    ELSE IF v.tag # "dict" THEN AssertionError
    ELSE IF \E i \in 1..Len(dt.fields) :
                ArrowTableToRowsConversion_need_converter(dt.fields[i].dt)
         THEN LET out == [i \in 1..Len(v.items) |->
                             LET k == v.items[i][1]
                             IN IF k.tag # "str" THEN AssertionError
                                ELSE IF ~HasField(dt, k.s) THEN KeyError
                                ELSE ArrowTableToRowsConversion_create_converter(
                                         FieldType(dt, k.s), v.items[i][2])]
              IN IF HasError(out) THEN FirstError(out)
                 ELSE RowFromKwargs(DictFromPairs(
                          [i \in 1..Len(v.items) |-> <<v.items[i][1], out[i]>>]))
    ELSE RowFromKwargs(v.items)

ArrowTableToRowsConversion_convert_array(dt, v) ==
    IF IsNone(v) THEN None
    ELSE IF v.tag # "list" THEN AssertionError
    ELSE LET out == [i \in 1..Len(v.items) |->
                        ArrowTableToRowsConversion_create_converter(dt.el, v.items[i])]
         IN IF HasError(out) THEN FirstError(out) ELSE PyList("call", out)

\* A mutant of ArrowTableToRowsConversion_convert_map: the pairs are read as
\* (value, key).
ArrowTableToRowsConversion_convert_map_swapped(dt, v) ==
    IF IsNone(v) THEN None
    ELSE IF v.tag # "list" THEN AssertionError
    ELSE IF \E i \in 1..Len(v.items) :
                ~(v.items[i].tag \in {"tuple", "row"} /\ Len(v.items[i].items) = 2)
         THEN AssertionError
    ELSE LET keys == [i \in 1..Len(v.items) |->
                         ArrowTableToRowsConversion_create_converter(dt.k, v.items[i].items[2])]
             vals == [i \in 1..Len(v.items) |->
                         ArrowTableToRowsConversion_create_converter(dt.v, v.items[i].items[1])]
             out == [i \in 1..Len(v.items) |->
                        IF IsError(keys[i]) THEN keys[i]
                        ELSE IF IsError(vals[i]) THEN vals[i]
                        ELSE None]
         IN IF HasError(out) THEN FirstError(out)
            ELSE IF \E i \in 1..Len(keys) : keys[i].tag \in {"list", "dict", "bytearray"}
                 THEN TypeError
            ELSE PyDict("call", DictFromPairs([i \in 1..Len(keys) |-> <<keys[i], vals[i]>>]))

ArrowTableToRowsConversion_convert_map(dt, v) ==
    IF IsNone(v) THEN None
    ELSE IF v.tag # "list" THEN AssertionError
    ELSE IF \E i \in 1..Len(v.items) :
                ~(v.items[i].tag \in {"tuple", "row"} /\ Len(v.items[i].items) = 2)
         THEN AssertionError
    ELSE LET keys == [i \in 1..Len(v.items) |->
                         ArrowTableToRowsConversion_create_converter(dt.k, v.items[i].items[1])]
             vals == [i \in 1..Len(v.items) |->
                         ArrowTableToRowsConversion_create_converter(dt.v, v.items[i].items[2])]
             out == [i \in 1..Len(v.items) |->
                        IF IsError(keys[i]) THEN keys[i]
                        ELSE IF IsError(vals[i]) THEN vals[i]
                        ELSE None]
         IN IF HasError(out) THEN FirstError(out)
            ELSE IF \E i \in 1..Len(keys) : keys[i].tag \in {"list", "dict", "bytearray"}
                 THEN TypeError
            ELSE PyDict("call", DictFromPairs([i \in 1..Len(keys) |-> <<keys[i], vals[i]>>]))

ArrowTableToRowsConversion_convert_binary(v) ==
    IF IsNone(v) THEN None
    ELSE IF v.tag # "bytes" THEN AssertionError
    ELSE PyByteArray(v.s)

ArrowTableToRowsConversion_convert_timestample(v) ==
    IF IsNone(v) THEN None
    ELSE IF v.tag # "datetime" THEN AssertionError
    ELSE IF v.aware THEN PyDatetime(v.wall, FALSE, 0)
    ELSE v

\* The converter _create_converter(dataType) returns, applied to v.
ArrowTableToRowsConversion_create_converter(dt, v) ==
    IF ~ArrowTableToRowsConversion_need_converter(dt) THEN v
    ELSE CASE dt.t = "Null" -> None
           [] dt.t = "Struct" -> ArrowTableToRowsConversion_convert_struct(dt, v)
           [] dt.t = "Array" -> ArrowTableToRowsConversion_convert_array(dt, v)
           [] dt.t = "Map" -> ArrowTableToRowsConversion_convert_map(dt, v)
           [] dt.t = "Binary" -> ArrowTableToRowsConversion_convert_binary(v)
           [] dt.t \in {"Timestamp", "TimestampNTZ"} ->
                ArrowTableToRowsConversion_convert_timestample(v)
           [] OTHER -> v

(***************************************************************************)
(* The inputs: schema types, and for each type the values a caller may     *)
(* hand to its converters.                                                 *)
(***************************************************************************)
NameA == <<"a">>
NameB == <<"b">>
NameC == <<"c">>
NameX == <<"x">>
NameY == <<"y">>
NameZ == <<"z">>

StructOfInts == StructType(<<StructField(NameA, IntegerType), StructField(NameB, IntegerType)>>)
StructOfIntString == StructType(<<StructField(NameA, IntegerType), StructField(NameB, StringType)>>)
StructOfStructs ==
    StructType(<<StructField(NameA, StructOfInts), StructField(NameB, ArrayType(IntegerType))>>)

LeafTypes == {NullType, IntegerType, BooleanType, StringType, BinaryType,
              TimestampType, TimestampNTZType, DecimalType}
StructTypes == {StructOfInts, StructOfIntString, StructOfStructs}
MapTypes == {MapType(StringType, IntegerType), MapType(IntegerType, StringType),
             MapType(StringType, StructOfInts), MapType(StringType, ArrayType(StringType))}
BaseTypes == LeafTypes \cup StructTypes \cup MapTypes

RECURSIVE ArraysOver(_, _)
ArraysOver(S, depth) ==
    IF depth = 0 THEN S
    ELSE LET below == ArraysOver(S, depth - 1)
         IN below \cup {ArrayType(dt) : dt \in below}

Types == ArraysOver(BaseTypes, MaxArrayDepth)

IsStruct(dt) == dt.t = "Struct"
DistinctNames(dt) ==
    \A i, j \in 1..Len(dt.fields) : dt.fields[i].name = dt.fields[j].name => i = j

\* Sequences of length n equal to d but for one place, which is drawn from S.
OneHot(S, d, n) == {[i \in 1..n |-> IF i = p THEN v ELSE d] : p \in 1..n, v \in S}

\* Sequences of length at most n over S without repetition of the key that
\* keyOf gives.
RECURSIVE DistinctSeqs(_, _)
DistinctSeqs(S, n) ==
    IF n = 0 THEN {<<>>}
    ELSE LET shorter == DistinctSeqs(S, n - 1)
         IN shorter \cup {Append(q, e) : q \in {r \in shorter : Len(r) = n - 1}, e \in S}

UniqueKeys(items) == \A i, j \in 1..Len(items) : items[i][1] = items[j][1] => i = j

Reverse(q) == [i \in 1..Len(q) |-> q[Len(q) + 1 - i]]

KeySample(dt) ==
    IF dt.t = "String" THEN {PyStr(NameA), PyStr(NameB), PyStr(NameC)}
    ELSE {PyInt(1), PyInt(2), PyInt(3)}

\* One legal local value of each type, and one legal Arrow cell.
RECURSIVE LocalDefault(_)
LocalDefault(dt) ==
    CASE dt.t = "Null" -> None
      [] dt.t = "Integer" -> PyInt(1)
      [] dt.t = "Boolean" -> PyBool(TRUE)
      [] dt.t = "String" -> PyStr(<<"h", "i">>)
      [] dt.t = "Binary" -> PyBytes(<<"x">>)
      [] dt.t = "Timestamp" -> PyDatetime(9, TRUE, 1)
      [] dt.t = "TimestampNTZ" -> PyDatetime(9, FALSE, 0)
      [] dt.t = "Decimal" -> PyDecimal(FALSE, 3)
      [] dt.t = "Array" -> PyList("caller", <<LocalDefault(dt.el)>>)
      [] dt.t = "Map" ->
            PyDict("caller", <<<<CHOOSE k \in KeySample(dt.k) : TRUE, LocalDefault(dt.v)>>>>)
      [] dt.t = "Struct" ->
            PyTuple([i \in 1..Len(dt.fields) |-> LocalDefault(dt.fields[i].dt)])

RECURSIVE ArrowDefault(_)
ArrowDefault(dt) ==
    CASE dt.t = "Array" -> PyList("caller", <<ArrowDefault(dt.el)>>)
      [] dt.t = "Map" ->
            PyList("caller",
                   <<PyTuple(<<CHOOSE k \in KeySample(dt.k) : TRUE, ArrowDefault(dt.v)>>)>>)
      [] dt.t = "Struct" ->
            PyDict("caller", [i \in 1..Len(dt.fields) |->
                                 <<PyStr(dt.fields[i].name), ArrowDefault(dt.fields[i].dt)>>])
      [] dt.t = "Timestamp" -> PyDatetime(8, TRUE, 0)
      [] OTHER -> LocalDefault(dt)

LocalSample(dt) ==
    {None, LocalDefault(dt)}
        \cup (IF dt.t = "Integer" THEN {PyInt(2)} ELSE {})
        \cup (IF dt.t = "Struct"
              THEN {PyDict("caller", [i \in 1..Len(dt.fields) |->
                                         <<PyStr(dt.fields[i].name),
                                           LocalDefault(dt.fields[i].dt)>>])}
              ELSE {})
ArrowSample(dt) ==
    {None, ArrowDefault(dt)} \cup (IF dt.t = "Integer" THEN {PyInt(2)} ELSE {})

\* The records of a struct: one sampled value for each field, in field order.
RECURSIVE Records(_, _)
Records(fields, local) ==
    IF fields = <<>> THEN {<<>>}
    ELSE LET n == Len(fields)
             last == IF local THEN LocalSample(fields[n].dt) ELSE ArrowSample(fields[n].dt)
         IN {Append(r, v) : r \in Records(SubSeq(fields, 1, n - 1), local), v \in last}

\* A record in each of the shapes a caller can give it.
AsItems(dt, rec) == [i \in 1..Len(rec) |-> <<PyStr(dt.fields[i].name), rec[i]>>]
AsDict(dt, rec) == PyDict("caller", AsItems(dt, rec))
AsReversedDict(dt, rec) == PyDict("caller", Reverse(AsItems(dt, rec)))
AsTuple(rec) == PyTuple(rec)
AsList(rec) == PyList("caller", rec)
AsRow(dt, rec) == PyRow(TRUE, fieldNames(dt), rec)
AsReversedRow(dt, rec) == PyRow(TRUE, Reverse(fieldNames(dt)), Reverse(rec))

RowShapes(dt, rec) ==
    {AsTuple(rec), AsList(rec)}
        \cup (IF DistinctNames(dt)
              THEN {AsDict(dt, rec), AsReversedDict(dt, rec), AsRow(dt, rec),
                    AsReversedRow(dt, rec)}
              ELSE {})

\* The atomic values that coerce to a String, and the composites that do not.
AtomicValues ==
    {PyStr(<<"h", "i">>), PyStr(<<>>), PyBool(TRUE), PyBool(FALSE), PyInt(0), PyInt(7),
     PyInt(105), PyInt(-30), PyBytes(<<"x">>), PyByteArray(<<"x">>),
     PyDecimal(FALSE, 3), PyDecimal(TRUE, 0), PyDatetime(9, TRUE, 1)}

\* Values of the wrong shape for most types.
Probes ==
    {None, PyInt(7), PyList("caller", <<PyInt(1)>>), PyTuple(<<PyInt(1), PyInt(2), PyInt(3)>>),
     PyDict("caller", <<<<PyStr(NameA), PyInt(1)>>>>),
     PyDict("caller", <<<<PyInt(1), PyInt(1)>>, <<PyInt(2), PyInt(2)>>>>),
     PyDict("caller", <<<<PyStr(NameZ), PyInt(1)>>>>),
     PyRow(TRUE, <<NameA, NameB>>, <<PyInt(1), PyInt(2)>>)}

RECURSIVE LocalValues(_)
LocalValues(dt) ==
    CASE dt.t = "Null" -> {None}
      [] dt.t = "Integer" -> {None, PyInt(1), PyInt(2)}
      [] dt.t = "Boolean" -> {None, PyBool(TRUE), PyBool(FALSE)}
      [] dt.t = "String" -> {None} \cup AtomicValues
      [] dt.t = "Binary" -> {None, PyBytes(<<"x">>), PyByteArray(<<"x", "y">>)}
      [] dt.t \in {"Timestamp", "TimestampNTZ"} ->
            {None, PyDatetime(9, TRUE, 1), PyDatetime(9, FALSE, 0)}
      [] dt.t = "Decimal" -> {None, PyDecimal(FALSE, 3), PyDecimal(TRUE, 0)}
      [] dt.t = "Array" ->
            {None, PyList("caller", <<>>)}
                \cup {PyList("caller", <<v>>) : v \in LocalValues(dt.el)}
                \cup UNION {{PyList("caller", q) :
                                q \in OneHot(LocalSample(dt.el), LocalDefault(dt.el), n)} :
                            n \in 2..MaxLen}
      [] dt.t = "Map" ->
            {None} \cup {PyDict("caller", items) :
                            items \in {q \in DistinctSeqs(KeySample(dt.k) \X LocalSample(dt.v),
                                                          MaxLen) : UniqueKeys(q)}}
      [] dt.t = "Struct" ->
            {None} \cup UNION {RowShapes(dt, rec) : rec \in Records(dt.fields, TRUE)}

RECURSIVE ArrowValues(_)
ArrowValues(dt) ==
    CASE dt.t = "Array" ->
            {None, PyList("caller", <<>>)}
                \cup {PyList("caller", <<v>>) : v \in ArrowValues(dt.el)}
                \cup UNION {{PyList("caller", q) :
                                q \in OneHot(ArrowSample(dt.el), ArrowDefault(dt.el), n)} :
                            n \in 2..MaxLen}
      [] dt.t = "Map" ->
            {None} \cup {PyList("caller", [i \in 1..Len(q) |-> PyTuple(q[i])]) :
                            q \in DistinctSeqs(KeySample(dt.k) \X ArrowSample(dt.v), MaxLen)}
      [] dt.t = "Struct" ->
            {None} \cup {AsDict(dt, rec) : rec \in Records(dt.fields, FALSE)}
                   \cup {AsReversedDict(dt, rec) : rec \in Records(dt.fields, FALSE)}
      [] dt.t = "Binary" -> {None, PyBytes(<<"x">>)}
      [] dt.t = "Timestamp" -> {None, PyDatetime(8, TRUE, 0)}
      [] dt.t = "TimestampNTZ" -> {None, PyDatetime(9, FALSE, 0)}
      [] OTHER -> LocalValues(dt)

FieldInputs ==
    UNION {{<<dt, v>> : v \in LocalValues(dt) \cup ArrowValues(dt) \cup Probes} : dt \in Types}

(***************************************************************************)
(* The two convert entry points.                                           *)
(***************************************************************************)
\* The body of convert's loop for one item: like convert_struct, without
\* its assertions; an item that cannot be iterated is a TypeError.
LocalDataToArrowConversion_convert_item(sch, item) ==
    IF item.tag = "dict" THEN LocalDataToArrowConversion_keyed(sch, item.items, FALSE)
    ELSE IF item.tag = "row" /\ item.named
         THEN LocalDataToArrowConversion_keyed(sch, asDict(item), FALSE)
    ELSE IF item.tag \in {"tuple", "list", "row"}
         THEN LocalDataToArrowConversion_positional(sch, item.items)
    ELSE IF item.tag = "str"
         THEN LocalDataToArrowConversion_positional(
                  sch, [i \in 1..Len(item.s) |-> PyStr(<<item.s[i]>>)])
    ELSE TypeError

\* dict.get(name): the value of the key, None without it.
DictGet(d, name) ==
    IF \E i \in 1..Len(d.items) : d.items[i][1] = PyStr(name)
    THEN d.items[CHOOSE i \in 1..Len(d.items) : d.items[i][1] = PyStr(name)][2]
    ELSE None

\* A value as Arrow hands it back after storing it: the containers are
\* objects of their own.
RECURSIVE ArrowCell(_)
ArrowCell(v) ==
    CASE v.tag = "list" -> PyList("call", [i \in 1..Len(v.items) |-> ArrowCell(v.items[i])])
      [] v.tag = "tuple" -> PyTuple([i \in 1..Len(v.items) |-> ArrowCell(v.items[i])])
      [] v.tag = "dict" ->
            PyDict("call", [i \in 1..Len(v.items) |->
                               <<ArrowCell(v.items[i][1]), ArrowCell(v.items[i][2])>>])
      [] OTHER -> v

\* pa.Table.from_pylist(pylist, schema=pa_schema): one column for each field
\* of the schema, filled from each row's value under the field's name.
from_pylist(rowDicts, sch) ==
    [names |-> fieldNames(sch),
     cols |-> [j \in 1..Len(sch.fields) |->
                  [i \in 1..Len(rowDicts) |-> ArrowCell(DictGet(rowDicts[i], sch.fields[j].name))]],
     num_rows |-> Len(rowDicts)]

\* pyspark.sql.types._create_row(fields, values)
create_row(fields, values) == PyRow(TRUE, fields, values)

\* A mutant of ArrowTableToRowsConversion_convert_values: every row reads
\* the cells of the first row.
ArrowTableToRowsConversion_convert_values_first_row(sch, tbl, i) ==
    [j \in 1..Len(tbl.cols) |->
        IF j > Len(sch.fields) THEN IndexError
        ELSE ArrowTableToRowsConversion_create_converter(sch.fields[j].dt, tbl.cols[j][1])]

\* values = [field_converters[j](columnar_data[j][i]) for j in range(0, table.num_columns)]
ArrowTableToRowsConversion_convert_values(sch, tbl, i) ==
    [j \in 1..Len(tbl.cols) |->
        IF j > Len(sch.fields) THEN IndexError
        ELSE ArrowTableToRowsConversion_create_converter(sch.fields[j].dt, tbl.cols[j][i])]

(***************************************************************************)
(* The inputs of the convert calls.                                        *)
(***************************************************************************)
SchemaInts == StructType(<<StructField(NameX, IntegerType), StructField(NameY, IntegerType)>>)
SchemaSameName == StructType(<<StructField(NameX, IntegerType), StructField(NameX, IntegerType)>>)
SchemaExample ==
    StructType(<<StructField(NameX, StringType), StructField(NameY, ArrayType(IntegerType))>>)
SchemaNested ==
    StructType(<<StructField(NameX, StructOfInts),
                 StructField(NameY, MapType(StringType, IntegerType))>>)
SchemaArray ==
    StructType(<<StructField(NameX, ArrayType(IntegerType)), StructField(NameY, BooleanType)>>)
SchemaOne == StructType(<<StructField(NameX, IntegerType)>>)
SchemaThree ==
    StructType(<<StructField(NameX, IntegerType), StructField(NameY, IntegerType),
                 StructField(NameZ, BooleanType)>>)

Schemas == {SchemaInts, SchemaSameName, SchemaExample, SchemaNested, SchemaArray,
            SchemaOne, SchemaThree}

\* Items that are no rows of the schema.
ItemProbes ==
    {None, PyInt(7), PyTuple(<<PyInt(1), PyInt(2), PyInt(3), PyInt(4)>>),
     PyDict("caller", <<<<PyStr(NameX), PyInt(1)>>, <<PyStr(NameC), PyInt(2)>>>>),
     PyDict("caller", <<<<PyInt(1), PyInt(1)>>>>)}

Items(sch) ==
    UNION {RowShapes(sch, rec) : rec \in Records(sch.fields, TRUE)} \cup ItemProbes

DataLists(sch) ==
    {<<>>} \cup UNION {OneHot(Items(sch), LocalDefault(sch), n) : n \in 1..MaxRows}

RECURSIVE ColumnsOf(_, _)
ColumnsOf(fields, n) ==
    IF fields = <<>> THEN {<<>>}
    ELSE LET k == Len(fields)
         IN {Append(cs, col) : cs \in ColumnsOf(SubSeq(fields, 1, k - 1), n),
                               col \in [1..n -> {None, ArrowDefault(fields[k].dt)}]}

Tables ==
    UNION {{[names |-> fieldNames(ts), cols |-> cs, num_rows |-> n] :
               cs \in ColumnsOf(ts.fields, n)} : ts \in Schemas, n \in 0..MaxRows}

(***************************************************************************)
(* The state machine.  A behaviour is one call: of a field converter in    *)
(* both directions (call = "field"), of LocalDataToArrowConversion.convert *)
(* followed by ArrowTableToRowsConversion.convert on its table             *)
(* (call = "rows"), or of ArrowTableToRowsConversion.convert on a table    *)
(* received from elsewhere (call = "table").                               *)
(***************************************************************************)
Pending == [tag |-> "pending"]
NoTable == [names |-> <<>>, cols |-> <<>>, num_rows |-> 0]
LocalOffsets == {0, 2}

InitField ==
    /\ call = "field"
    /\ pc = "field"
    /\ \E in \in FieldInputs : dataType = in[1] /\ value = in[2]
    /\ l2aOut = Pending
    /\ a2rOut = Pending
    /\ backOut = Pending
    /\ schema = StructType(<<>>)
    /\ data = <<>>
    /\ given = <<>>
    /\ pylist = <<>>
    /\ table = NoTable
    /\ rows = <<>>
    /\ raised = None

InitRows ==
    /\ call = "rows"
    /\ pc = "convert"
    /\ dataType = NullType
    /\ value = None
    /\ l2aOut = Pending
    /\ a2rOut = Pending
    /\ backOut = Pending
    /\ schema \in Schemas
    /\ data \in DataLists(schema)
    /\ given = data
    /\ pylist = <<>>
    /\ table = NoTable
    /\ rows = <<>>
    /\ raised = None

InitTable ==
    /\ call = "table"
    /\ pc = "table"
    /\ dataType = NullType
    /\ value = None
    /\ l2aOut = Pending
    /\ a2rOut = Pending
    /\ backOut = Pending
    /\ schema \in Schemas
    /\ data = <<>>
    /\ given = <<>>
    /\ pylist = <<>>
    /\ table \in Tables
    /\ rows = <<>>
    /\ raised = None

Init ==
    /\ localOffset \in LocalOffsets
    /\ (InitField \/ InitRows \/ InitTable)

\* converter = LocalDataToArrowConversion._create_converter(dataType); converter(value)
ApplyLocalToArrow ==
    /\ pc = "field"
    /\ l2aOut = Pending
    /\ l2aOut' = LocalDataToArrowConversion_create_converter(dataType, value)
    /\ UNCHANGED <<localOffset, call, pc, dataType, value, a2rOut, backOut, tableVars>>

\* converter = ArrowTableToRowsConversion._create_converter(dataType); converter(value)
ApplyArrowToRows ==
    /\ pc = "field"
    /\ a2rOut = Pending
    /\ a2rOut' = ArrowTableToRowsConversion_create_converter(dataType, value)
    /\ UNCHANGED <<localOffset, call, pc, dataType, value, l2aOut, backOut, tableVars>>

\* The column-to-row converter of the same type on what the row-to-column
\* converter returned.
ApplyBack ==
    /\ pc = "field"
    /\ l2aOut # Pending
    /\ ~IsError(l2aOut)
    /\ backOut = Pending
    /\ backOut' = ArrowTableToRowsConversion_create_converter(dataType, l2aOut)
    /\ UNCHANGED <<localOffset, call, pc, dataType, value, l2aOut, a2rOut, tableVars>>

\* LocalDataToArrowConversion.convert up to its loop: the assertions on data
\* and schema, the column converters, pylist = [].
LocalDataToArrowConversion_convert_begin ==
    /\ pc = "convert"
    /\ IF Len(data) > 0
       THEN pc' = "for_item" /\ raised' = raised
       ELSE pc' = "raised" /\ raised' = AssertionError
    /\ pylist' = <<>>
    /\ UNCHANGED <<localOffset, call, fieldVars, schema, data, given, table, rows>>

\* One turn of "for item in data".
LocalDataToArrowConversion_convert_loop ==
    /\ pc = "for_item"
    /\ Len(pylist) < Len(data)
    /\ LET dict == LocalDataToArrowConversion_convert_item(schema, data[Len(pylist) + 1])
       IN IF IsError(dict)
          THEN pc' = "raised" /\ raised' = dict /\ pylist' = pylist
          ELSE pc' = pc /\ raised' = raised /\ pylist' = Append(pylist, dict)
    /\ UNCHANGED <<localOffset, call, fieldVars, schema, data, given, table, rows>>

\* return pa.Table.from_pylist(pylist, schema=pa_schema)
LocalDataToArrowConversion_convert_return ==
    /\ pc = "for_item"
    /\ Len(pylist) = Len(data)
    /\ table' = from_pylist(pylist, schema)
    /\ pc' = "table"
    /\ UNCHANGED <<localOffset, call, fieldVars, schema, data, given, pylist, rows, raised>>

\* ArrowTableToRowsConversion.convert up to its loop: the assertions, the
\* field converters, the columns as lists, rows = [].
ArrowTableToRowsConversion_convert_begin ==
    /\ pc = "table"
    /\ rows' = <<>>
    /\ pc' = "for_i"
    /\ UNCHANGED <<localOffset, call, fieldVars, schema, data, given, pylist, table, raised>>

\* One turn of "for i in range(0, table.num_rows)".
ArrowTableToRowsConversion_convert_loop ==
    /\ pc = "for_i"
    /\ Len(rows) < table.num_rows
    /\ LET values == ArrowTableToRowsConversion_convert_values(schema, table, Len(rows) + 1)
       IN IF HasError(values)
          THEN pc' = "raised" /\ raised' = FirstError(values) /\ rows' = rows
          ELSE pc' = pc /\ raised' = raised
               /\ rows' = Append(rows, create_row(table.names, values))
    /\ UNCHANGED <<localOffset, call, fieldVars, schema, data, given, pylist, table>>

\* return rows
ArrowTableToRowsConversion_convert_return ==
    /\ pc = "for_i"
    /\ Len(rows) = table.num_rows
    /\ pc' = "returned"
    /\ UNCHANGED <<localOffset, call, fieldVars, tableVars>>

Next ==
    \/ ApplyLocalToArrow
    \/ ApplyArrowToRows
    \/ ApplyBack
    \/ LocalDataToArrowConversion_convert_begin
    \/ LocalDataToArrowConversion_convert_loop
    \/ LocalDataToArrowConversion_convert_return
    \/ ArrowTableToRowsConversion_convert_begin
    \/ ArrowTableToRowsConversion_convert_loop
    \/ ArrowTableToRowsConversion_convert_return

Spec == Init /\ [][Next]_vars

(***************************************************************************)
(* The properties.                                                         *)
(***************************************************************************)
L2ADone == call = "field" /\ l2aOut # Pending
A2RDone == call = "field" /\ a2rOut # Pending

\* Every None element of a list given is None in the list returned.
NoneElementsKept(in, out) ==
    (in.tag = "list" /\ out.tag = "list") =>
        \A i \in 1..Len(in.items) : IsNone(in.items[i]) => IsNone(out.items[i])

\* C1: null propagation.  For every type, at top level and for the elements
\* of an array, the row-to-column converter and the column-to-row converter
\* both return None on None.
C1_NullPropagation ==
    /\ L2ADone =>
        /\ IsNone(value) => IsNone(l2aOut)
        /\ dataType.t = "Array" => NoneElementsKept(value, l2aOut)
    /\ A2RDone =>
        /\ IsNone(value) => IsNone(a2rOut)
        /\ dataType.t = "Array" => NoneElementsKept(value, a2rOut)

\* The row-to-column half of C1, which the code satisfies.
C1_NullPropagationLocalToArrow ==
    L2ADone =>
        /\ IsNone(value) => IsNone(l2aOut)
        /\ dataType.t = "Array" => NoneElementsKept(value, l2aOut)

IsScalarInt(v) == v.tag = "int"
Composite(dt) == dt.t \in {"Map", "Array", "Struct"}

\* C2 as claimed: the converter of every Map, Array or Struct field, in both
\* directions, fails with the shape assertion on a scalar integer.
C2_ScalarRejectedByEveryComposite ==
    (Composite(dataType) /\ IsScalarInt(value)) =>
        /\ L2ADone => l2aOut = AssertionError
        /\ A2RDone => a2rOut = AssertionError

\* C2 as amended: a scalar integer fails the shape assertion of every Map
\* and Struct field and of every Array field whose element type needs
\* conversion in that direction; the converter of an Array whose element
\* type needs none is the identity and returns the integer.
C2_ScalarRejectedWhenConverted ==
    (Composite(dataType) /\ IsScalarInt(value)) =>
        /\ L2ADone =>
            IF LocalDataToArrowConversion_need_converter(dataType)
            THEN l2aOut = AssertionError
            ELSE dataType.t = "Array" /\ l2aOut = value
        /\ A2RDone =>
            IF ArrowTableToRowsConversion_need_converter(dataType)
            THEN a2rOut = AssertionError
            ELSE dataType.t = "Array" /\ a2rOut = value

C2_Witness ==
    /\ dataType = ArrayType(StringType)
    /\ IsScalarInt(value)
    /\ L2ADone /\ l2aOut = AssertionError
    /\ A2RDone /\ a2rOut = value

\* The type at the bottom of a chain of arrays.
RECURSIVE ElementLeaf(_)
ElementLeaf(dt) == IF dt.t = "Array" THEN ElementLeaf(dt.el) ELSE dt

AlwaysConverted == {"Null", "Struct", "Map", "Binary", "Timestamp", "TimestampNTZ"}
ConvertedToArrowOnly == {"Decimal", "String"}

\* C10: the needs-conversion predicates are the specified table (an array
\* follows the innermost element type), and a builder returns the identity
\* exactly for the types whose predicate is false: such a converter returns
\* every value given, and every other converter changes or rejects the
\* integer 7.
C10_NeedConverterTable ==
    call = "field" =>
        /\ LocalDataToArrowConversion_need_converter(dataType)
              = (ElementLeaf(dataType).t \in AlwaysConverted \cup ConvertedToArrowOnly)
        /\ ArrowTableToRowsConversion_need_converter(dataType)
              = (ElementLeaf(dataType).t \in AlwaysConverted)
        /\ (L2ADone /\ ElementLeaf(dataType).t \notin AlwaysConverted \cup ConvertedToArrowOnly)
              => l2aOut = value
        /\ (A2RDone /\ ElementLeaf(dataType).t \notin AlwaysConverted)
              => a2rOut = value
        /\ (L2ADone /\ ElementLeaf(dataType).t \in AlwaysConverted \cup ConvertedToArrowOnly
                /\ value = PyInt(7))
              => l2aOut # value
        /\ (A2RDone /\ ElementLeaf(dataType).t \in AlwaysConverted /\ value = PyInt(7))
              => a2rOut # value

C10_Witness ==
    /\ dataType = ArrayType(ArrayType(StringType))
    /\ value.tag = "list"
    /\ L2ADone /\ l2aOut # value
    /\ A2RDone /\ a2rOut = value

IsNamedRow(v) == v.tag = "row" /\ v.named
NamesOf(dt) == {dt.fields[j].name : j \in 1..Len(dt.fields)}

\* v gives one value for each field of the struct dt: as a dict keyed by the
\* field names, as a Row named by them, as a tuple aligned to the fields or,
\* where a list is read as an ordered sequence, as such a list.
RecordShape(dt, v, listToo) ==
    CASE v.tag = "dict" ->
            /\ \A i \in 1..Len(v.items) : v.items[i][1].tag = "str"
            /\ {v.items[i][1] : i \in 1..Len(v.items)} = {PyStr(n) : n \in NamesOf(dt)}
      [] IsNamedRow(v) ->
            /\ Len(v.items) = Len(dt.fields)
            /\ Len(v.fields) = Len(dt.fields)
            /\ {v.fields[i] : i \in 1..Len(v.fields)} = NamesOf(dt)
      [] v.tag \in {"tuple", "row"} /\ ~IsNamedRow(v) -> Len(v.items) = Len(dt.fields)
      [] v.tag = "list" -> listToo /\ Len(v.items) = Len(dt.fields)
      [] OTHER -> FALSE

\* The value the record v gives for the j-th field of dt.
FieldValue(dt, v, j) ==
    CASE v.tag = "dict" -> DictGet(v, dt.fields[j].name)
      [] IsNamedRow(v) ->
            v.items[CHOOSE i \in 1..Len(v.fields) : v.fields[i] = dt.fields[j].name]
      [] OTHER -> v.items[j]

\* out is the keyed mapping from each field name of dt to the converted
\* value of the record v for that field, or the failure of the call when
\* the conversion of a field value fails.
ConvertedRecord(dt, v, out) ==
    LET expected == [j \in 1..Len(dt.fields) |->
                        LocalDataToArrowConversion_create_converter(
                            dt.fields[j].dt, FieldValue(dt, v, j))]
    IN IF HasError(expected) THEN IsError(out)
       ELSE /\ out.tag = "dict"
            /\ {out.items[i][1] : i \in 1..Len(out.items)} = {PyStr(n) : n \in NamesOf(dt)}
            /\ \A j \in 1..Len(dt.fields) : DictGet(out, dt.fields[j].name) = expected[j]

\* convert raised while it was converting the item after those of pylist.
RaisedOnItem ==
    call = "rows" /\ pc = "raised" /\ table = NoTable /\ Len(pylist) < Len(data)

ShapeEquivalence(nestedListToo) ==
    /\ (L2ADone /\ IsStruct(dataType) /\ DistinctNames(dataType)
            /\ RecordShape(dataType, value, nestedListToo))
          => ConvertedRecord(dataType, value, l2aOut)
    /\ (call = "rows" /\ DistinctNames(schema)) =>
          /\ \A i \in 1..Len(pylist) :
                RecordShape(schema, data[i], TRUE) => ConvertedRecord(schema, data[i], pylist[i])
          /\ (RaisedOnItem /\ RecordShape(schema, data[Len(pylist) + 1], TRUE))
                => ConvertedRecord(schema, data[Len(pylist) + 1], raised)

IsStrIntDict(v) ==
    /\ v.tag = "dict"
    /\ \A i \in 1..Len(v.items) : v.items[i][1].tag = "str" /\ v.items[i][2].tag = "int"

ItemSet(d) == {d.items[i] : i \in 1..Len(d.items)}

\* C6: for a Map(String, Int) field and a mapping with string keys and
\* integer values, the row-to-column converter returns the list of the
\* mapping's (key, value) pairs in its iteration order, and the
\* column-to-row converter applied to that list returns a mapping with the
\* same keys and values.
C6_MapRoundTrip ==
    (call = "field" /\ dataType = MapType(StringType, IntegerType) /\ IsStrIntDict(value)) =>
        /\ l2aOut # Pending =>
            /\ l2aOut.tag = "list"
            /\ Len(l2aOut.items) = Len(value.items)
            /\ \A i \in 1..Len(value.items) :
                  l2aOut.items[i] = PyTuple(<<value.items[i][1], value.items[i][2]>>)
        /\ backOut # Pending =>
            /\ backOut.tag = "dict"
            /\ Len(backOut.items) = Len(value.items)
            /\ ItemSet(backOut) = ItemSet(value)

C6_Witness ==
    /\ call = "field"
    /\ dataType = MapType(StringType, IntegerType)
    /\ value = PyDict("caller", <<<<PyStr(NameB), PyInt(2)>>, <<PyStr(NameA), PyInt(1)>>>>)
    /\ l2aOut.tag = "list"
    /\ backOut # Pending
    /\ backOut.tag = "dict"

\* The integer a decimal text denotes.
DigitValue(c) == CHOOSE d \in 0..9 : Digits[d + 1] = c
RECURSIVE ParseDigits(_)
ParseDigits(text) ==
    IF Len(text) = 1 THEN DigitValue(text[1])
    ELSE 10 * ParseDigits(SubSeq(text, 1, Len(text) - 1)) + DigitValue(text[Len(text)])
IsDigits(text) ==
    /\ text # <<>>
    /\ \A i \in 1..Len(text) : \E d \in 0..9 : Digits[d + 1] = text[i]
IsIntText(text) ==
    IF text # <<>> /\ text[1] = "-" THEN IsDigits(Tail(text)) ELSE IsDigits(text)
ParseInt(text) == IF text[1] = "-" THEN -ParseDigits(Tail(text)) ELSE ParseDigits(text)

\* C9: the row-to-column String converter returns "true" for True and
\* "false" for False, a str as it is, the decimal text of an integer, a
\* text for every other atomic value, and fails the shape assertion on a
\* list, a tuple, a Row or a dict.
C9_StringCoercion ==
    (L2ADone /\ dataType = StringType /\ ~IsNone(value)) =>
        CASE value = PyBool(TRUE) -> l2aOut = PyStr(<<"t", "r", "u", "e">>)
          [] value = PyBool(FALSE) -> l2aOut = PyStr(<<"f", "a", "l", "s", "e">>)
          [] value.tag = "str" -> l2aOut = value
          [] value.tag = "int" ->
                /\ l2aOut.tag = "str"
                /\ IsIntText(l2aOut.s)
                /\ ParseInt(l2aOut.s) = value.i
          [] value.tag \in {"list", "tuple", "row", "dict"} -> l2aOut = AssertionError
          [] OTHER -> l2aOut.tag = "str" /\ l2aOut.s # <<>>

C9_Witness ==
    /\ L2ADone
    /\ dataType = StringType
    /\ value = PyInt(-30)
    /\ l2aOut = PyStr(<<"-", "3", "0">>)

\* C4: ArrowTableToRowsConversion.convert never returns rows for a table
\* whose number of columns differs from the schema's number of fields.
C4_CountMismatchFails ==
    (call = "table" /\ Len(schema.fields) # Len(table.cols)) => pc # "returned"

\* ArrowTableToRowsConversion.convert is running, has returned or has raised.
InTableToRows ==
    \/ pc \in {"for_i", "returned"}
    \/ pc = "raised" /\ (call = "table" \/ table # NoTable)

\* C5: with as many schema fields as table columns, the rows built so far
\* are, in table row order, named Rows whose fields are the table's column
\* names in column order and whose j-th value is the j-th field's converter
\* applied to the row's cell of column j; convert returns when there is one
\* for each table row, and raises only where a converter fails on a cell.
C5_RowsOfTable ==
    (InTableToRows /\ Len(schema.fields) = Len(table.cols)) =>
        /\ Len(rows) <= table.num_rows
        /\ \A i \in 1..Len(rows) :
              /\ IsNamedRow(rows[i])
              /\ rows[i].fields = table.names
              /\ Len(rows[i].items) = Len(table.cols)
              /\ \A j \in 1..Len(table.cols) :
                    rows[i].items[j] =
                        ArrowTableToRowsConversion_create_converter(
                            schema.fields[j].dt, table.cols[j][i])
        /\ pc = "returned" => Len(rows) = table.num_rows
        /\ pc = "raised" =>
              /\ Len(rows) < table.num_rows
              /\ \E j \in 1..Len(table.cols) :
                    IsError(ArrowTableToRowsConversion_create_converter(
                                schema.fields[j].dt, table.cols[j][Len(rows) + 1]))

C5_Witness ==
    /\ call = "table"
    /\ pc = "returned"
    /\ schema = SchemaNested
    /\ table.names = <<NameX, NameY>>
    /\ Len(rows) = 2
    /\ IsNone(rows[1].items[2])
    /\ rows[2].items[2].tag = "dict"
    /\ rows[2].items[1].tag = "row"

StableType(dt) ==
    /\ ~LocalDataToArrowConversion_need_converter(dt)
    /\ ~ArrowTableToRowsConversion_need_converter(dt)
StableSchema(sch) == \A j \in 1..Len(sch.fields) : StableType(sch.fields[j].dt)

\* Equal values, whoever owns their containers.
SameValue(a, b) == ArrowCell(a) = ArrowCell(b)

RoundTrip(sch) ==
    (call = "rows" /\ sch = schema /\ StableSchema(schema) /\ given # <<>>
        /\ \A i \in 1..Len(given) : RecordShape(schema, given[i], TRUE)) =>
        /\ pc # "raised"
        /\ pc = "returned" =>
              /\ Len(rows) = Len(given)
              /\ \A i \in 1..Len(given) : \A j \in 1..Len(schema.fields) :
                    SameValue(rows[i].items[j], FieldValue(schema, given[i], j))

\* C7: for every schema of types that need no conversion in either
\* direction and every non-empty list of rows, converting the rows to a
\* table and the table back returns one record for each row, in order,
\* whose value for every field is the row's value for that field.
C7_RoundTripStableTypes == \A sch \in Schemas : RoundTrip(sch)

\* The round trip holds for the schemas whose field names are all different.
C7_RoundTripDistinctNames == \A sch \in {t \in Schemas : DistinctNames(t)} : RoundTrip(sch)

\* Every container of v was allocated by the call.
RECURSIVE OwnedByCall(_)
OwnedByCall(v) ==
    CASE v.tag = "list" ->
            v.own = "call" /\ \A i \in 1..Len(v.items) : OwnedByCall(v.items[i])
      [] v.tag = "dict" ->
            /\ v.own = "call"
            /\ \A i \in 1..Len(v.items) : OwnedByCall(v.items[i][1]) /\ OwnedByCall(v.items[i][2])
      [] v.tag \in {"tuple", "row"} -> \A i \in 1..Len(v.items) : OwnedByCall(v.items[i])
      [] OTHER -> TRUE

\* The containers of out that a converter of dt builds were allocated by the
\* call: the dict of a struct, the list of an array whose elements are
\* converted, the pair list of a map.
RECURSIVE NewlyBuilt(_, _)
NewlyBuilt(dt, out) ==
    IF ~LocalDataToArrowConversion_need_converter(dt) THEN TRUE
    ELSE CASE dt.t = "Struct" /\ out.tag = "dict" ->
                /\ out.own = "call"
                /\ \A i \in 1..Len(out.items) :
                      NewlyBuilt(FieldType(dt, out.items[i][1].s), out.items[i][2])
           [] dt.t = "Array" /\ out.tag = "list" ->
                /\ out.own = "call"
                /\ \A i \in 1..Len(out.items) : NewlyBuilt(dt.el, out.items[i])
           [] dt.t = "Map" /\ out.tag = "list" ->
                /\ out.own = "call"
                /\ \A i \in 1..Len(out.items) :
                      /\ NewlyBuilt(dt.k, out.items[i].items[1])
                      /\ NewlyBuilt(dt.v, out.items[i].items[2])
           [] OTHER -> TRUE

\* C8: LocalDataToArrowConversion.convert leaves its input as it was given,
\* while it runs, when it has returned and when it has raised; every
\* container that a converter builds, in the rows of pylist and in the
\* result of a field converter, and every container of the table returned
\* is allocated by the call and none is the caller's.
C8_InputUntouched ==
    /\ call = "rows" =>
          /\ data = given
          /\ \A i \in 1..Len(pylist) : NewlyBuilt(schema, pylist[i])
          /\ \A j \in 1..Len(table.cols) : \A i \in 1..Len(table.cols[j]) :
                OwnedByCall(table.cols[j][i])
    /\ L2ADone => NewlyBuilt(dataType, l2aOut)

C8_Witness ==
    /\ call = "rows"
    /\ pc = "table"
    /\ schema = SchemaNested
    /\ Len(pylist) = 2
    /\ data[2].tag = "dict"
    /\ DictGet(data[2], NameY).tag = "dict"
    /\ DictGet(data[2], NameY).own = "caller"
    /\ DictGet(pylist[2], NameY).tag = "list"
    /\ DictGet(pylist[2], NameX).tag = "dict"
    /\ table.cols[2][2].tag = "list"

====
